---- MODULE Spec2Model ----
(***************************************************************************)
(* Hybrid A* coarse trajectory generator                                   *)
(* (modules/planning/open_space/coarse_trajectory_generator/               *)
(* hybrid_a_star.cc), modelled on an integer workspace.                    *)
(*                                                                         *)
(* Lengths are whole cells, headings are whole quarter turns in the range  *)
(* NormalizeAngle produces, [-2, 2) standing for [-pi, pi).  A             *)
(* shared_ptr<Node3d> is an index into the arena `nodes` (0 is nullptr).   *)
(* The unordered_maps open_set_ and close_set_ are functions from a grid   *)
(* index to a node pointer, open_pq_ is the sequence of its entries in     *)
(* push order; top() is the earliest pushed entry of least cost.           *)
(***************************************************************************)
EXTENDS Integers, Sequences, FiniteSets, TLC

\* ------------------------------------------------------------------ bounds
\* The workspaces handed to Plan are [0, MaxX] x [0, MaxY].
MaxX == 3
MaxY == 2

\* ------------------------------------------------ configuration (constructor)
next_node_num_ == 6
max_steer_angle_ == 1
step_size_ == 1
xy_grid_resolution_ == 1
delta_t_ == 1
traj_forward_penalty_ == 1
traj_back_penalty_ == 1
traj_gear_switch_penalty_ == 10
traj_steer_penalty_ == 1
traj_steer_change_penalty_ == 1
\* vehicle_param_.wheel_base(), in cells
wheel_base == 1
\* std::sqrt(2) in thousandths
Sqrt2Milli == 1414
\* the offset of the QP bounds
BoundMargin == 10

\* ------------------------------------------------------------ sequences
Reverse(s) == [i \in 1..Len(s) |-> s[Len(s) + 1 - i]]

\* x.pop_back()
PopBack(s) == SubSeq(s, 1, Len(s) - 1)

Abs(a) == IF a < 0 THEN -a ELSE a

Min2(a, b) == IF a <= b THEN a ELSE b

Max2(a, b) == IF a >= b THEN a ELSE b

\* *std::min_element(begin, end) of a non-empty sequence
MinElement(s) == CHOOSE m \in {s[i] : i \in 1..Len(s)} : \A i \in 1..Len(s) : m <= s[i]

\* *std::max_element(begin, end) of a non-empty sequence
MaxElement(s) == CHOOSE m \in {s[i] : i \in 1..Len(s)} : \A i \in 1..Len(s) : m >= s[i]

\* ------------------------------------------------------------ angles
\* common::math::NormalizeAngle: into [-pi, pi), here [-2, 2) quarter turns
NormalizeAngle(a) == ((a + 2) % 4) - 2

\* std::cos of a heading
Cos(phi) == CASE NormalizeAngle(phi) = 0 -> 1
              [] NormalizeAngle(phi) = -2 -> -1
              [] OTHER -> 0

\* std::sin of a heading
Sin(phi) == CASE NormalizeAngle(phi) = 1 -> 1
              [] NormalizeAngle(phi) = -1 -> -1
              [] OTHER -> 0

\* std::tan of a steering angle, in quarter turns of heading per wheel base
\* travelled: odd and increasing, the maximal steering turns one quarter
Tan(steering) == IF steering > 0 THEN 1 ELSE IF steering < 0 THEN -1 ELSE 0

\* std::atan of a curvature, in units of the maximal steering
Atan(z) == IF z > 0 THEN max_steer_angle_ ELSE IF z < 0 THEN -max_steer_angle_ ELSE 0

\* ------------------------------------------------------------ geometry
\* Box2d::HasOverlap(LineSegment2d) for the footprint Node3d::GetBoundingBox
\* gives: the vehicle covers the cell of its pose, the segment the lattice
\* points between its two ends
HasOverlap(x, y, phi, seg) ==
    LET ax == seg[1][1]
        ay == seg[1][2]
        bx == seg[2][1]
        by == seg[2][2]
    IN  /\ (bx - ax) * (y - ay) = (by - ay) * (x - ax)
        /\ Min2(ax, bx) <= x /\ x <= Max2(ax, bx)
        /\ Min2(ay, by) <= y /\ y <= Max2(ay, by)

\* the test of lines 106-107 and 180-183
OutOfBounds(x, y, XYb) == x > XYb[2] \/ x < XYb[1] \/ y > XYb[4] \/ y < XYb[3]

\* ------------------------------------------------------------ Node3d
\* Node3d(traversed_x, traversed_y, traversed_phi, XYbounds, config)
Node3d(xs, ys, phis) ==
    [xs |-> xs, ys |-> ys, phis |-> phis, pre |-> 0, direc |-> TRUE, steer |-> 0,
     traj_cost |-> 0, heu_cost |-> 0]

GetX(n) == n.xs[Len(n.xs)]

GetY(n) == n.ys[Len(n.ys)]

GetPhi(n) == n.phis[Len(n.phis)]

GetStepSize(n) == Len(n.xs)

GetCost(n) == n.traj_cost + n.heu_cost

\* Node3d::GetIndex: the grid cell and heading bucket of the last pose
GetIndex(n, XYb) ==
    << (GetX(n) - XYb[1]) \div xy_grid_resolution_,
       (GetY(n) - XYb[3]) \div xy_grid_resolution_,
       NormalizeAngle(GetPhi(n)) >>

\* ------------------------------------------------------------ obstacles
\* size_t of the loop bound vertices_num - 1, its width scaled to 16 bits
SizeModulus == 65536

\* line 466: vertices_num - 1 in size_t arithmetic
SegmentLoopBound(vertices) == (Len(vertices) - 1) % SizeModulus

\* lines 466-468: an iteration i < vertices_num - 1 reads obstacle_vertices[i]
\* and obstacle_vertices[i + 1]; true when one of them is past the end
SegmentLoopReadsPastEnd(vertices) ==
    \E i \in 0..Len(vertices) : i < SegmentLoopBound(vertices) /\ i + 1 >= Len(vertices)

\* ObstacleLinesegments closing the polygon: the segment from the last vertex
\* back to the first is built too
ObstacleLinesegments_Closed(vertices) ==
    [i \in 1..Len(vertices) |->
        <<vertices[i], vertices[IF i = Len(vertices) THEN 1 ELSE i + 1]>>]

\* lines 464-470: the segments of one obstacle (every read is inside the list)
ObstacleLinesegments(vertices) ==
    [i \in 1..(Len(vertices) - 1) |-> <<vertices[i], vertices[i + 1]>>]

\* lines 461-473
BuildLinesegmentsVec(obstacles_vertices_vec) ==
    [o \in 1..Len(obstacles_vertices_vec) |-> ObstacleLinesegments(obstacles_vertices_vec[o])]

\* ValidityCheck without the std::reverse of lines 95-97: the pose left out is
\* the last one the vehicle reaches
ValidityCheck_SkipsLast(node, linesegments_vec, XYb) ==
    IF linesegments_vec = <<>> THEN TRUE
    ELSE
      LET node_step_size == GetStepSize(node)
          last_check_index == IF node_step_size = 1 THEN 1 ELSE node_step_size - 1
      IN  \A i \in 1..last_check_index :
            /\ ~OutOfBounds(node.xs[i], node.ys[i], XYb)
            /\ \A o \in 1..Len(linesegments_vec) :
                 \A s \in 1..Len(linesegments_vec[o]) :
                   ~HasOverlap(node.xs[i], node.ys[i], node.phis[i],
                               linesegments_vec[o][s])

\* ------------------------------------------------------------ ValidityCheck
\* lines 83-122
ValidityCheck(node, linesegments_vec, XYb) ==
    IF linesegments_vec = <<>> THEN TRUE
    ELSE
      LET node_step_size == GetStepSize(node)
          traversed_x == Reverse(node.xs)
          traversed_y == Reverse(node.ys)
          traversed_phi == Reverse(node.phis)
          last_check_index == IF node_step_size = 1 THEN 1 ELSE node_step_size - 1
      IN  \A i \in 1..last_check_index :
            /\ ~OutOfBounds(traversed_x[i], traversed_y[i], XYb)
            /\ \A o \in 1..Len(linesegments_vec) :
                 \A s \in 1..Len(linesegments_vec[o]) :
                   ~HasOverlap(traversed_x[i], traversed_y[i], traversed_phi[i],
                               linesegments_vec[o][s])

\* ------------------------------------------------------------ Reeds-Shepp
\* ReedShepp::ShortestRSP(current, end, path): a curve exists when the end
\* pose lies on the line of the current heading with the same heading; it is
\* sampled every cell from the current pose to the end pose
ShortestRSP(cur, end) ==
    LET h == NormalizeAngle(GetPhi(cur))
        dx == GetX(end) - GetX(cur)
        dy == GetY(end) - GetY(cur)
        along == dx * Cos(h) + dy * Sin(h)
        lateral == dy * Cos(h) - dx * Sin(h)
        sgn == IF along < 0 THEN -1 ELSE 1
        n == Abs(along) + 1
    IN  IF lateral = 0 /\ NormalizeAngle(GetPhi(end)) = h
        THEN [ok |-> TRUE,
              x |-> [i \in 1..n |-> GetX(cur) + sgn * (i - 1) * Cos(h)],
              y |-> [i \in 1..n |-> GetY(cur) + sgn * (i - 1) * Sin(h)],
              phi |-> [i \in 1..n |-> h]]
        ELSE [ok |-> FALSE, x |-> <<>>, y |-> <<>>, phi |-> <<>>]

\* lines 75-81
RSPCheck(rsp, linesegments_vec, XYb) ==
    ValidityCheck(Node3d(rsp.x, rsp.y, rsp.phi), linesegments_vec, XYb)

\* ------------------------------------------------------------ heuristic
\* CheckDpMap of a cell GenerateDpMap did not reach
Unreachable == 99

\* the cells [0 .. (xmax - xmin)/res] x [0 .. (ymax - ymin)/res] of the grid
GridCells(XYb) ==
    (0..((XYb[2] - XYb[1]) \div xy_grid_resolution_)) \X
    (0..((XYb[4] - XYb[3]) \div xy_grid_resolution_))

\* a cell an obstacle segment passes through
CellBlocked(c, linesegments_vec, XYb) ==
    \E o \in 1..Len(linesegments_vec) : \E s \in 1..Len(linesegments_vec[o]) :
        HasOverlap(XYb[1] + c[1] * xy_grid_resolution_, XYb[3] + c[2] * xy_grid_resolution_,
                   0, linesegments_vec[o][s])

Neighbours(c) == {<<c[1] + dx, c[2] + dy>> : dx \in -1..1, dy \in -1..1} \ {c}

RECURSIVE DpSearch(_, _, _, _)
\* the 8-connected shortest path computation of GridSearch, layer by layer
DpSearch(map, frontier, cost, free) ==
    IF frontier = {} THEN map
    ELSE LET seen == DOMAIN map \cup frontier
             map2 == [c \in seen |-> IF c \in frontier THEN cost ELSE map[c]]
             next == {c \in free \ seen : \E f \in frontier : c \in Neighbours(f)}
         IN  DpSearch(map2, next, cost + 1, free)

\* GridSearch::GenerateDpMap(ex, ey, XYbounds, obstacles_linesegments_vec)
GenerateDpMap(ex, ey, XYb, linesegments_vec) ==
    LET goal == <<(ex - XYb[1]) \div xy_grid_resolution_, (ey - XYb[3]) \div xy_grid_resolution_>>
        free == {c \in GridCells(XYb) : ~CellBlocked(c, linesegments_vec, XYb)}
    IN  DpSearch(<<>>, {goal}, 0, free)

\* GridSearch::CheckDpMap(sx, sy) on the map of the planner
CheckDpMap(map, XYb, x, y) ==
    LET c == <<(x - XYb[1]) \div xy_grid_resolution_, (y - XYb[3]) \div xy_grid_resolution_>>
    IN  IF c \in DOMAIN map THEN map[c] ELSE Unreachable

\* lines 225-228
HoloObstacleHeuristic(next_node, map, XYb) ==
    CheckDpMap(map, XYb, GetX(next_node), GetY(next_node))

\* ------------------------------------------------------------ successors
\* a null shared_ptr<Node3d>
nullptr == 0

\* the test of line 166 as  i + 1 <= arc / step_size_ : the loop stops before
\* a substep that would pass the arc
LoopGoesOn_Floor(i, step_size, xy_grid_resolution) ==
    (i + 1) * step_size * 1000 <= Sqrt2Milli * xy_grid_resolution

\* line 166: the test  i < arc / step_size_  with arc = sqrt(2) * xy_grid_resolution_
\* (line 156), i converted to double
LoopGoesOn(i, step_size, xy_grid_resolution) ==
    i * step_size * 1000 < Sqrt2Milli * xy_grid_resolution

RECURSIVE IntegrateArc(_, _, _, _, _, _, _, _)
\* lines 166-178: the loop  for (i = 0; i < arc / step_size_; ++i)  from
\* iteration i on, for a planner configured with step_size and
\* xy_grid_resolution
IntegrateArc(i, xs, ys, phis, traveled_distance, steering, step_size, xy_grid_resolution) ==
    IF LoopGoesOn(i, step_size, xy_grid_resolution)
    THEN LET last_x == xs[Len(xs)]
             last_y == ys[Len(ys)]
             last_phi == phis[Len(phis)]
             next_x == last_x + traveled_distance * Cos(last_phi)
             next_y == last_y + traveled_distance * Sin(last_phi)
             next_phi == NormalizeAngle(
                 last_phi + (traveled_distance \div wheel_base) * Tan(steering))
         IN  IntegrateArc(i + 1, Append(xs, next_x), Append(ys, next_y),
                          Append(phis, next_phi), traveled_distance, steering,
                          step_size, xy_grid_resolution)
    ELSE <<xs, ys, phis>>

\* lines 166-178 with the configuration of this planner
Integrate(i, xs, ys, phis, traveled_distance, steering) ==
    IntegrateArc(i, xs, ys, phis, traveled_distance, steering, step_size_,
                 xy_grid_resolution_)

\* lines 140-153: the steering of primitive next_node_index for a planner
\* configured with next_node_num and max_steer_angle, as the fraction
\* num / den.  The divisor next_node_num / 2 - 1 is den / 2; when it is 0 the
\* quotient of lines 143 and 150 is infinite and its product with index 0 is
\* not a number.
SteeringOf(next_node_num, max_steer_angle, next_node_index) ==
    LET index == IF 2 * next_node_index < next_node_num
                 THEN next_node_index
                 ELSE next_node_index - next_node_num \div 2
        den == next_node_num - 2
    IN  IF den = 0
        THEN [kind |-> IF index = 0 THEN "nan" ELSE "inf", num |-> 0, den |-> 1]
        ELSE [kind |-> "finite",
              num |-> -max_steer_angle * den + 4 * max_steer_angle * index,
              den |-> den]

\* lines 140-153 with the configuration of this planner, where the fraction
\* is a whole number
Steering(next_node_index) ==
    LET s == SteeringOf(next_node_num_, max_steer_angle_, next_node_index)
    IN  s.num \div s.den

\* lines 140-153: the signed length of one substep of primitive next_node_index
TraveledDistance(next_node_index) ==
    IF 2 * next_node_index < next_node_num_ THEN step_size_ ELSE -step_size_

\* Next_node_generator without the boundary test of lines 179-185
Next_node_generator_NoBoundCheck(arena, current_node, next_node_index, XYb) ==
    LET cur == arena[current_node]
        steering == Steering(next_node_index)
        traveled_distance == TraveledDistance(next_node_index)
        inter == Integrate(0, <<GetX(cur)>>, <<GetY(cur)>>, <<GetPhi(cur)>>,
                           traveled_distance, steering)
    IN  [Node3d(inter[1], inter[2], inter[3]) EXCEPT
            !.pre = current_node,
            !.direc = (traveled_distance > 0),
            !.steer = steering]

\* lines 135-193; current_node is a pointer into arena, the value is the
\* new node or NoNode for nullptr
NoNode == [xs |-> <<>>]

Next_node_generator(arena, current_node, next_node_index, XYb) ==
    LET cur == arena[current_node]
        steering == Steering(next_node_index)
        traveled_distance == TraveledDistance(next_node_index)
        inter == Integrate(0, <<GetX(cur)>>, <<GetY(cur)>>, <<GetPhi(cur)>>,
                           traveled_distance, steering)
        n == Len(inter[1])
    IN  IF OutOfBounds(inter[1][n], inter[2][n], XYb)
        THEN NoNode
        ELSE [Node3d(inter[1], inter[2], inter[3]) EXCEPT
                 !.pre = current_node,
                 !.direc = (traveled_distance > 0),
                 !.steer = steering]

\* lines 205-223
TrajCost(current_node, next_node) ==
    LET run == IF next_node.direc
               THEN (GetStepSize(next_node) - 1) * step_size_ * traj_forward_penalty_
               ELSE (GetStepSize(next_node) - 1) * step_size_ * traj_back_penalty_
        gear == IF current_node.direc # next_node.direc
                THEN traj_gear_switch_penalty_ ELSE 0
    IN  run + gear
        + traj_steer_penalty_ * Abs(next_node.steer)
        + traj_steer_change_penalty_ * Abs(next_node.steer - current_node.steer)

\* lines 195-203
CalculateNodeCost(current_node, next_node, map, XYb) ==
    [next_node EXCEPT
        !.traj_cost = current_node.traj_cost + TrajCost(current_node, next_node),
        !.heu_cost = HoloObstacleHeuristic(next_node, map, XYb)]

\* ------------------------------------------------------------ containers
\* unordered_map::insert / emplace: an existing key keeps its value
MapInsert(m, k, v) ==
    IF k \in DOMAIN m THEN m
    ELSE [x \in DOMAIN m \cup {k} |-> IF x = k THEN v ELSE m[x]]

\* open_pq_.top(): the position of the earliest pushed entry of least cost
PqTop(pq) ==
    CHOOSE i \in 1..Len(pq) :
        /\ \A j \in 1..Len(pq) : pq[i][2] <= pq[j][2]
        /\ \A j \in 1..(i - 1) : pq[j][2] > pq[i][2]

\* open_pq_.pop() left out: the top entry stays in the queue
PqPop_KeepsTop(pq) == pq

\* open_pq_.pop()
PqPop(pq) ==
    LET t == PqTop(pq) IN [i \in 1..(Len(pq) - 1) |-> IF i < t THEN pq[i] ELSE pq[i + 1]]

RECURSIVE ExpandFrom_ForwardOnly(_, _, _, _, _)
\* ExpandFrom with the loop of line 521 ending at next_node_num_ / 2: the
\* reverse primitives are never generated
ExpandFrom_ForwardOnly(i, S, current_node, env, closed) ==
    IF 2 * i >= next_node_num_ THEN S
    ELSE
      LET next_node == Next_node_generator(S.arena, current_node, i, env.XYb)
          key == GetIndex(next_node, env.XYb)
          skip == \/ next_node = NoNode
                  \/ key \in DOMAIN closed
                  \/ ~ValidityCheck(next_node, env.segs, env.XYb)
      IN  IF skip \/ key \in DOMAIN S.open_set
          THEN ExpandFrom_ForwardOnly(i + 1, S, current_node, env, closed)
          ELSE LET costed == CalculateNodeCost(S.arena[current_node], next_node,
                                               env.map, env.XYb)
                   arena2 == Append(S.arena, costed)
               IN  ExpandFrom_ForwardOnly(i + 1,
                              [arena |-> arena2,
                               open_set |-> MapInsert(S.open_set, key, Len(arena2)),
                               open_pq |-> Append(S.open_pq, <<key, GetCost(costed)>>)],
                              current_node, env, closed)

RECURSIVE ExpandFrom_Reopens(_, _, _, _, _)
\* ExpandFrom with a re-opening policy in place of the test of line 535: a
\* successor cheaper than the node stored under its index takes its place
\* and is queued
ExpandFrom_Reopens(i, S, current_node, env, closed) ==
    IF i >= next_node_num_ THEN S
    ELSE
      LET next_node == Next_node_generator(S.arena, current_node, i, env.XYb)
          key == GetIndex(next_node, env.XYb)
          skip == \/ next_node = NoNode
                  \/ key \in DOMAIN closed
                  \/ ~ValidityCheck(next_node, env.segs, env.XYb)
          costed == CalculateNodeCost(S.arena[current_node], next_node,
                                      env.map, env.XYb)
          arena2 == Append(S.arena, costed)
      IN  IF skip THEN ExpandFrom_Reopens(i + 1, S, current_node, env, closed)
          ELSE IF /\ key \in DOMAIN S.open_set
                  /\ costed.traj_cost >= S.arena[S.open_set[key]].traj_cost
          THEN ExpandFrom_Reopens(i + 1, S, current_node, env, closed)
          ELSE ExpandFrom_Reopens(i + 1,
                              [arena |-> arena2,
                               open_set |-> [x \in DOMAIN S.open_set \cup {key} |->
                                               IF x = key THEN Len(arena2)
                                               ELSE S.open_set[x]],
                               open_pq |-> Append(S.open_pq, <<key, GetCost(costed)>>)],
                              current_node, env, closed)

RECURSIVE ExpandFrom_NoOpenSetTest(_, _, _, _, _)
\* ExpandFrom without the test of line 535: a successor whose index the open
\* set holds already is costed, emplaced (the map keeps the entry it has)
\* and queued
ExpandFrom_NoOpenSetTest(i, S, current_node, env, closed) ==
    IF i >= next_node_num_ THEN S
    ELSE
      LET next_node == Next_node_generator(S.arena, current_node, i, env.XYb)
          key == GetIndex(next_node, env.XYb)
          skip == \/ next_node = NoNode
                  \/ key \in DOMAIN closed
                  \/ ~ValidityCheck(next_node, env.segs, env.XYb)
      IN  IF skip THEN ExpandFrom_NoOpenSetTest(i + 1, S, current_node, env, closed)
          ELSE LET costed == CalculateNodeCost(S.arena[current_node], next_node,
                                               env.map, env.XYb)
                   arena2 == Append(S.arena, costed)
               IN  ExpandFrom_NoOpenSetTest(i + 1,
                              [arena |-> arena2,
                               open_set |-> MapInsert(S.open_set, key, Len(arena2)),
                               open_pq |-> Append(S.open_pq, <<key, GetCost(costed)>>)],
                              current_node, env, closed)

RECURSIVE ExpandFrom(_, _, _, _, _)
\* lines 521-544: the loop over the primitives from primitive i on; S holds
\* open_set, open_pq, arena and is returned as the loop leaves them
ExpandFrom(i, S, current_node, env, closed) ==
    IF i >= next_node_num_ THEN S
    ELSE
      LET next_node == Next_node_generator(S.arena, current_node, i, env.XYb)
          key == GetIndex(next_node, env.XYb)
          skip == \/ next_node = NoNode
                  \/ key \in DOMAIN closed
                  \/ ~ValidityCheck(next_node, env.segs, env.XYb)
      IN  IF skip THEN ExpandFrom(i + 1, S, current_node, env, closed)
          ELSE IF key \in DOMAIN S.open_set
          THEN ExpandFrom(i + 1, S, current_node, env, closed)
          ELSE LET costed == CalculateNodeCost(S.arena[current_node], next_node,
                                               env.map, env.XYb)
                   arena2 == Append(S.arena, costed)
               IN  ExpandFrom(i + 1,
                              [arena |-> arena2,
                               open_set |-> MapInsert(S.open_set, key, Len(arena2)),
                               open_pq |-> Append(S.open_pq, <<key, GetCost(costed)>>)],
                              current_node, env, closed)

\* ------------------------------------------------------------ result
\* a HybridAStartResult with every vector empty
EmptyResult ==
    [x |-> <<>>, y |-> <<>>, phi |-> <<>>, v |-> <<>>, a |-> <<>>, steer |-> <<>>,
     accumulated_s |-> <<>>]

RECURSIVE WalkParents_KeepsShared(_, _, _, _, _, _)
\* WalkParents without the pop_back of lines 246-248: the pose a node shares
\* with its parent is gathered from both
WalkParents_KeepsShared(arena, current_node, hybrid_a_x, hybrid_a_y, hybrid_a_phi, fuel) ==
    LET cur == arena[current_node] IN
    IF cur.pre = nullptr
    THEN [ok |-> TRUE, hangs |-> FALSE, node |-> current_node,
          x |-> hybrid_a_x, y |-> hybrid_a_y, phi |-> hybrid_a_phi]
    ELSE IF fuel = 0
    THEN [ok |-> FALSE, hangs |-> TRUE, node |-> current_node,
          x |-> hybrid_a_x, y |-> hybrid_a_y, phi |-> hybrid_a_phi]
    ELSE WalkParents_KeepsShared(arena, cur.pre,
                     hybrid_a_x \o Reverse(cur.xs),
                     hybrid_a_y \o Reverse(cur.ys),
                     hybrid_a_phi \o Reverse(cur.phis),
                     fuel - 1)

RECURSIVE WalkParents(_, _, _, _, _, _)
\* lines 235-253: the parent walk from current_node with the poses gathered so
\* far; fuel counts the nodes of the arena, a walk that outlasts it never ends
WalkParents(arena, current_node, hybrid_a_x, hybrid_a_y, hybrid_a_phi, fuel) ==
    LET cur == arena[current_node] IN
    IF cur.pre = nullptr
    THEN [ok |-> TRUE, hangs |-> FALSE, node |-> current_node,
          x |-> hybrid_a_x, y |-> hybrid_a_y, phi |-> hybrid_a_phi]
    ELSE IF fuel = 0
    THEN [ok |-> FALSE, hangs |-> TRUE, node |-> current_node,
          x |-> hybrid_a_x, y |-> hybrid_a_y, phi |-> hybrid_a_phi]
    ELSE IF cur.xs = <<>> \/ cur.ys = <<>> \/ cur.phis = <<>>
    THEN [ok |-> FALSE, hangs |-> FALSE, node |-> current_node,
          x |-> hybrid_a_x, y |-> hybrid_a_y, phi |-> hybrid_a_phi]
    ELSE WalkParents(arena, cur.pre,
                     hybrid_a_x \o PopBack(Reverse(cur.xs)),
                     hybrid_a_y \o PopBack(Reverse(cur.ys)),
                     hybrid_a_phi \o PopBack(Reverse(cur.phis)),
                     fuel - 1)

\* lines 303-307 and 353-356: the velocity between samples i and i+1
DiscreteV(r, i) ==
    ((r.x[i + 1] - r.x[i]) \div delta_t_) * Cos(r.phi[i]) +
    ((r.y[i + 1] - r.y[i]) \div delta_t_) * Sin(r.phi[i])

\* lines 317-326 and 436-445: the steering pushed for sample i, v the
\* velocities of the result at that point
DiscreteSteer(r, v, i) ==
    LET discrete_steer == ((r.phi[i + 1] - r.phi[i]) * wheel_base) \div step_size_
    IN  IF v[i] > 0 THEN Atan(discrete_steer) ELSE Atan(-discrete_steer)

\* lines 296-328
GenerateSpeedAcceleration(result) ==
    IF Len(result.x) < 2 \/ Len(result.y) < 2 \/ Len(result.phi) < 2
    THEN [ok |-> FALSE, result |-> result]
    ELSE
      LET x_size == Len(result.x)
          v == result.v \o [i \in 1..(x_size - 1) |-> DiscreteV(result, i)] \o <<0>>
          a == result.a \o [i \in 1..(x_size - 1) |-> (v[i + 1] - v[i]) \div delta_t_]
          steer == result.steer \o [i \in 1..(x_size - 1) |-> DiscreteSteer(result, v, i)]
      IN  [ok |-> TRUE, result |-> [result EXCEPT !.v = v, !.a = a, !.steer = steer]]

\* PathTimeQpProblem: InitProblem, the bounds, the reference and Optimize.
\* The problem is feasible when the initial and the end state lie inside the
\* bounds; the solution has num_of_knots entries per vector and tracks the
\* reference.
PathTimeQp(num_of_knots, init_s, end_s, s_bounds, ds_bounds, ref) ==
    LET inside(z, b) == b[1] <= z /\ z <= b[2]
        feasible == /\ inside(init_s[1], s_bounds) /\ inside(end_s[1], s_bounds)
                    /\ inside(init_s[2], ds_bounds) /\ inside(end_s[2], ds_bounds)
                    /\ -44 <= 10 * init_s[3] /\ init_s[3] <= 10
        clip(z, b) == Max2(b[1], Min2(b[2], z))
        x == [i \in 1..num_of_knots |-> clip(ref[i], s_bounds)]
        dx == [i \in 1..num_of_knots |->
                 IF i = 1 THEN init_s[2]
                 ELSE IF i = num_of_knots THEN end_s[2]
                 ELSE clip((x[i + 1] - x[i]) \div delta_t_, ds_bounds)]
        ddx == [i \in 1..num_of_knots |->
                 IF i = num_of_knots THEN end_s[3] ELSE (dx[i + 1] - dx[i]) \div delta_t_]
    IN  [ok |-> feasible, x |-> x, x_derivative |-> dx, x_second_order_derivative |-> ddx]

\* std::min_element: the place of the first least element of v, from 1
MinElementPlace(v) ==
    CHOOSE i \in 1..Len(v) :
        /\ \A j \in 1..Len(v) : v[i] <= v[j]
        /\ \A j \in 1..(i - 1) : v[j] > v[i]

\* line 411: the place the iterator min_element(...) - 10 points at, from 1;
\* places below 1 lie before the vector
FirstOrderLowerRead(v) == MinElementPlace(v) - BoundMargin

\* line 411: *(std::min_element(begin(v), end(v)) - 10), the element ten
\* places before the first least one; before the start of the vector the
\* read yields whatever the memory holds (stray)
FirstOrderLowerBound(v, stray) ==
    LET at == FirstOrderLowerRead(v)
    IN  IF at >= 1 THEN v[at] ELSE stray

\* line 412
FirstOrderUpperBound(v) == MaxElement(v) + BoundMargin

RECURSIVE PartialSums(_, _)
\* lines 358-361: accumulated_s after the first n samples
PartialSums(r, n) ==
    IF n = 0 THEN <<>>
    ELSE LET before == PartialSums(r, n - 1)
             acc == IF n = 1 THEN 0 ELSE before[n - 1]
         IN  Append(before, acc + DiscreteV(r, n) * delta_t_)

\* lines 330-448
GenerateSCurveSpeedAcceleration(result, stray) ==
    IF Len(result.x) < 2 \/ Len(result.y) < 2 \/ Len(result.phi) < 2
    THEN [ok |-> FALSE, result |-> result]
    ELSE
      LET x_size == Len(result.x)
          pushed_v == result.v \o <<0>> \o [i \in 1..(x_size - 1) |-> DiscreteV(result, i)]
          v == [pushed_v EXCEPT ![x_size] = 0]
          accumulated_s == result.accumulated_s \o <<0>> \o PartialSums(result, x_size - 1)
          init_s == <<accumulated_s[1], v[1], (v[2] - v[1]) \div delta_t_>>
          end_s == <<accumulated_s[x_size], 0, 0>>
          qp == PathTimeQp(x_size, init_s, end_s,
                    <<MinElement(accumulated_s) - BoundMargin,
                      MaxElement(accumulated_s) + BoundMargin>>,
                    <<FirstOrderLowerBound(v, stray), FirstOrderUpperBound(v)>>,
                    accumulated_s)
          reference == [result EXCEPT !.v = v, !.accumulated_s = accumulated_s]
          steer == result.steer \o
                   [i \in 1..(x_size - 1) |-> DiscreteSteer(result, qp.x_derivative, i)]
      IN  IF ~qp.ok THEN [ok |-> FALSE, result |-> reference]
          ELSE [ok |-> TRUE,
                result |-> [result EXCEPT
                    !.accumulated_s = qp.x,
                    !.v = qp.x_derivative,
                    !.a = PopBack(qp.x_second_order_derivative),
                    !.steer = steer]]

\* lines 276-293: the size checks at the end of GetResult
SizesRight(r) ==
    /\ Len(r.x) = Len(r.y) /\ Len(r.x) = Len(r.v) /\ Len(r.x) = Len(r.phi)
    /\ Len(r.a) = Len(r.steer) /\ Len(r.x) - Len(r.a) = 1

\* GetResult without the size checks of lines 276-292
GetResult_NoSizeCheck(arena, final_node, result, s_curve, stray) ==
    LET walk == WalkParents(arena, final_node, <<>>, <<>>, <<>>, Len(arena))
        last == arena[walk.node]
        path == [result EXCEPT
                    !.x = Reverse(Append(walk.x, GetX(last))),
                    !.y = Reverse(Append(walk.y, GetY(last))),
                    !.phi = Reverse(Append(walk.phi, GetPhi(last)))]
        speed == IF s_curve THEN GenerateSCurveSpeedAcceleration(path, stray)
                 ELSE GenerateSpeedAcceleration(path)
    IN  IF walk.hangs THEN [ok |-> FALSE, hangs |-> TRUE, result |-> result]
        ELSE IF ~walk.ok THEN [ok |-> FALSE, hangs |-> FALSE, result |-> result]
        ELSE [ok |-> speed.ok, hangs |-> FALSE, result |-> speed.result]

\* lines 230-294; s_curve is FLAGS_use_s_curve_speed_smooth
GetResult(arena, final_node, result, s_curve, stray) ==
    LET walk == WalkParents(arena, final_node, <<>>, <<>>, <<>>, Len(arena))
        last == arena[walk.node]
        path == [result EXCEPT
                    !.x = Reverse(Append(walk.x, GetX(last))),
                    !.y = Reverse(Append(walk.y, GetY(last))),
                    !.phi = Reverse(Append(walk.phi, GetPhi(last)))]
        speed == IF s_curve THEN GenerateSCurveSpeedAcceleration(path, stray)
                 ELSE GenerateSpeedAcceleration(path)
    IN  IF walk.hangs THEN [ok |-> FALSE, hangs |-> TRUE, result |-> result]
        ELSE IF ~walk.ok THEN [ok |-> FALSE, hangs |-> FALSE, result |-> result]
        ELSE IF ~speed.ok THEN [ok |-> FALSE, hangs |-> FALSE, result |-> speed.result]
        ELSE [ok |-> SizesRight(speed.result), hangs |-> FALSE, result |-> speed.result]

\* ------------------------------------------------------------ state
VARIABLES
    open_set_,                      \* index -> node
    close_set_,                     \* index -> node
    open_pq_,                       \* entries <<index, cost>> in push order
    final_node_,                    \* node or nullptr
    obstacles_linesegments_vec_,    \* per obstacle, its segments
    XYbounds_,                      \* <<xmin, xmax, ymin, ymax>>
    start_node_,                    \* node or nullptr
    end_node_,                      \* node or nullptr
    dp_map_,                        \* the map of grid_a_star_heuristic_generator_
    nodes,                          \* the Node3d objects the planner holds
    FLAGS_use_s_curve_speed_smooth, \* the profiler mode
    result,                         \* the caller's HybridAStartResult
    pc,                             \* where the Plan call in progress stands
    ret,                            \* what the last Plan call returned
    args,                           \* the arguments of the last Plan call
    result_in,                      \* the result object as that call received it
    explored,                       \* the indices the main loop expanded, in order
    dp_builds,                      \* GenerateDpMap calls of that call
    earlier,                        \* what the call before returned, when it had the same input
    checked_node,                   \* a node handed to ValidityCheck on its own
    valid,                          \* what ValidityCheck returned for it
    trace,                          \* the calls of the latest main-loop iteration, in order
    input,                          \* the arguments of a function applied on its own
    output                          \* what that function returned

vars == <<open_set_, close_set_, open_pq_, final_node_, obstacles_linesegments_vec_,
          XYbounds_, start_node_, end_node_, dp_map_, nodes,
          FLAGS_use_s_curve_speed_smooth, result, pc, ret, args, result_in,
          explored, dp_builds, earlier, checked_node, valid, trace, input, output>>

\* ------------------------------------------------------------ inputs
\* the workspace of every call
Workspace == <<0, MaxX, 0, MaxY>>

\* start poses: in the corner, left of the workspace, on the wall
Starts == {<<0, 0, 0>>, <<-1, 0, 0>>, <<2, 1, 0>>}

\* end poses: straight ahead, in the far corner, across the grid turned a
\* quarter, right of the workspace, on the wall
Ends == {<<MaxX, 0, 0>>, <<MaxX, MaxY, 0>>, <<1, MaxY, 1>>, <<MaxX + 1, 0, 0>>, <<2, 0, 0>>}

\* obstacle lists: none; a wall; an open triangle whose missing edge crosses
\* (2, 1); one obstacle of a single vertex; one obstacle without vertices
ObstacleLists ==
    { <<>>,
      << <<<<2, 0>>, <<2, 1>>>> >>,
      << <<<<1, 2>>, <<3, 2>>, <<3, 0>>>> >>,
      << <<<<1, 1>>>> >>,
      << <<>> >> }

\* what an out-of-range read of a double may yield
StrayDoubles == {-100, 100}

PlanArgs ==
    [start : Starts, end : Ends, XYbounds : {Workspace},
     obstacles_vertices_vec : ObstacleLists]

NoCall == [none |-> TRUE]

\* ------------------------------------------------------------ construction
\* lines 30-54 and the caller's empty result object
Init ==
    /\ open_set_ = <<>>
    /\ close_set_ = <<>>
    /\ open_pq_ = <<>>
    /\ final_node_ = nullptr
    /\ obstacles_linesegments_vec_ = <<>>
    /\ XYbounds_ = <<>>
    /\ start_node_ = nullptr
    /\ end_node_ = nullptr
    /\ dp_map_ = <<>>
    /\ nodes = <<>>
    /\ FLAGS_use_s_curve_speed_smooth \in BOOLEAN
    /\ result = EmptyResult
    /\ pc = "idle"
    /\ ret = "none"
    /\ args = NoCall
    /\ result_in = EmptyResult
    /\ explored = <<>>
    /\ dp_builds = 0
    /\ earlier = NoCall
    /\ checked_node = NoNode
    /\ valid = "none"
    /\ trace = <<>>
    /\ input = <<>>
    /\ output = <<>>

\* ------------------------------------------------------------ Plan
\* lines 456-459: the containers as Plan leaves them before it reads its input
ClearedOpenSet(old) == <<>>

ClearedCloseSet(old) == <<>>

ClearedOpenPq(old) == <<>>

\* lines 450-497: Plan up to the main loop.  The caller passes a result object,
\* a new one or the one an earlier successful call filled.
PlanCall(a, fresh) ==
    /\ pc = "idle"
    /\ fresh \/ ret = "true"
    /\ LET result0 == IF fresh THEN EmptyResult ELSE result
           segs == BuildLinesegmentsVec(a.obstacles_vertices_vec)
           start == Node3d(<<a.start[1]>>, <<a.start[2]>>, <<a.start[3]>>)
           end == Node3d(<<a.end[1]>>, <<a.end[2]>>, <<a.end[3]>>)
           map == GenerateDpMap(a.end[1], a.end[2], a.XYbounds, segs)
           key == GetIndex(start, a.XYbounds)
       IN
       /\ result' = result0
       /\ result_in' = result0
       /\ args' = a
       /\ earlier' = IF a = args /\ result_in = result0 /\ ret # "none"
                     THEN [ret |-> ret, result |-> result]
                     ELSE NoCall
       /\ explored' = <<>>
       /\ final_node_' = nullptr
       /\ trace' = <<>>
       /\ UNCHANGED <<FLAGS_use_s_curve_speed_smooth, checked_node, valid, input, output>>
       /\ IF \E o \in 1..Len(a.obstacles_vertices_vec) :
                SegmentLoopReadsPastEnd(a.obstacles_vertices_vec[o])
          THEN \* line 468 reads past the end of the vertex list until the
               \* process is stopped: Plan never returns
               /\ pc' = "crashed"
               /\ ret' = "none"
               /\ open_set_' = ClearedOpenSet(open_set_)
               /\ close_set_' = ClearedCloseSet(close_set_)
               /\ open_pq_' = ClearedOpenPq(open_pq_)
               /\ nodes' = <<>>
               /\ start_node_' = nullptr
               /\ end_node_' = nullptr
               /\ dp_builds' = 0
               /\ UNCHANGED <<obstacles_linesegments_vec_, XYbounds_, dp_map_>>
          ELSE
               /\ obstacles_linesegments_vec_' = segs
               /\ XYbounds_' = a.XYbounds
               /\ nodes' = <<start, end>>
               /\ start_node_' = 1
               /\ end_node_' = 2
               /\ close_set_' = ClearedCloseSet(close_set_)
               /\ IF ~ValidityCheck(start, segs, a.XYbounds)
                     \/ ~ValidityCheck(end, segs, a.XYbounds)
                  THEN /\ pc' = "idle"
                       /\ ret' = "false"
                       /\ open_set_' = ClearedOpenSet(open_set_)
                       /\ open_pq_' = ClearedOpenPq(open_pq_)
                       /\ dp_builds' = 0
                       /\ UNCHANGED dp_map_
                  ELSE /\ pc' = "loop"
                       /\ ret' = "none"
                       /\ dp_map_' = map
                       /\ dp_builds' = 1
                       /\ open_set_' = MapInsert(ClearedOpenSet(open_set_), key, 1)
                       /\ open_pq_' = Append(ClearedOpenPq(open_pq_), <<key, GetCost(start)>>)

\* AnalyticExpansion without the RSPCheck of lines 65-67: every curve
\* ShortestRSP finds is taken
AnalyticExpansion_NoCheck(arena, current_node, end_node, linesegments_vec, XYb) ==
    LET rsp == ShortestRSP(arena[current_node], arena[end_node])
    IN  IF ~rsp.ok THEN NoNode
        ELSE [Node3d(rsp.x, rsp.y, rsp.phi) EXCEPT !.pre = current_node]

\* lines 56-73 and 124-133: the terminal node AnalyticExpansion reaches from
\* current_node, or NoNode
AnalyticExpansion(arena, current_node, end_node, linesegments_vec, XYb) ==
    LET rsp == ShortestRSP(arena[current_node], arena[end_node])
    IN  IF ~rsp.ok THEN NoNode
        ELSE IF ~RSPCheck(rsp, linesegments_vec, XYb) THEN NoNode
        ELSE [Node3d(rsp.x, rsp.y, rsp.phi) EXCEPT !.pre = current_node]

\* PopAndLookUp followed by a test of the popped index against the closed set
PopAndLookUp_ThenClosedSetTest ==
    <<"open_pq_.top", "open_pq_.pop", "open_set_[]", "close_set_.find">>

\* lines 508-510: what an iteration does before it tries the analytic expansion
PopAndLookUp == <<"open_pq_.top", "open_pq_.pop", "open_set_[]">>

\* lines 506-545: one iteration of the main loop, and the test of the next
SearchStep ==
    /\ pc = "loop"
    /\ LET current_id == open_pq_[PqTop(open_pq_)][1]
           popped == PqPop(open_pq_)
           current_node == IF current_id \in DOMAIN open_set_
                           THEN open_set_[current_id] ELSE nullptr
           looked_up == MapInsert(open_set_, current_id, nullptr)
       IN
       /\ UNCHANGED <<obstacles_linesegments_vec_, XYbounds_, start_node_, end_node_,
                      dp_map_, FLAGS_use_s_curve_speed_smooth, result, ret, args,
                      result_in, dp_builds, earlier, checked_node, valid, input, output>>
       /\ IF current_node = nullptr
          THEN \* line 59 hands a null node to ShortestRSP
               /\ pc' = "crashed"
               /\ open_set_' = looked_up
               /\ open_pq_' = popped
               /\ trace' = PopAndLookUp
               /\ UNCHANGED <<close_set_, final_node_, nodes, explored>>
          ELSE
            LET final == AnalyticExpansion(nodes, current_node, end_node_,
                                           obstacles_linesegments_vec_, XYbounds_)
                closed == MapInsert(close_set_, GetIndex(nodes[current_node], XYbounds_),
                                    current_node)
                S == ExpandFrom(0, [arena |-> nodes, open_set |-> looked_up,
                                    open_pq |-> popped],
                                current_node,
                                [XYb |-> XYbounds_, segs |-> obstacles_linesegments_vec_,
                                 map |-> dp_map_],
                                closed)
            IN  IF final # NoNode
                THEN /\ nodes' = Append(nodes, final)
                     /\ final_node_' = Len(nodes) + 1
                     /\ close_set_' = MapInsert(close_set_, GetIndex(final, XYbounds_),
                                                Len(nodes) + 1)
                     /\ open_set_' = looked_up
                     /\ open_pq_' = popped
                     /\ pc' = "after_loop"
                     /\ trace' = Append(PopAndLookUp, "AnalyticExpansion")
                     /\ UNCHANGED explored
                ELSE /\ nodes' = S.arena
                     /\ open_set_' = S.open_set
                     /\ open_pq_' = S.open_pq
                     /\ close_set_' = closed
                     /\ explored' = Append(explored, current_id)
                     /\ pc' = IF S.open_pq = <<>> THEN "after_loop" ELSE "loop"
                     /\ trace' = PopAndLookUp \o <<"AnalyticExpansion", "close_set_.insert",
                                                   "Next_node_generator">>
                     /\ UNCHANGED final_node_

\* PlanReturn with the test of line 546 answering true for a search that
\* set no final node
PlanReturn_ReportsSuccess ==
    /\ pc = "after_loop"
    /\ UNCHANGED <<open_set_, close_set_, open_pq_, final_node_,
                   obstacles_linesegments_vec_, XYbounds_, start_node_, end_node_,
                   dp_map_, nodes, FLAGS_use_s_curve_speed_smooth, args, result_in,
                   explored, dp_builds, earlier, checked_node, valid, trace, input,
                   output>>
    /\ IF final_node_ = nullptr
       THEN /\ ret' = "true"
            /\ pc' = "idle"
            /\ UNCHANGED result
       ELSE \E stray \in StrayDoubles :
              LET got == GetResult(nodes, final_node_, result,
                                   FLAGS_use_s_curve_speed_smooth, stray)
              IN  /\ result' = got.result
                  /\ pc' = IF got.hangs THEN "hung" ELSE "idle"
                  /\ ret' = IF got.hangs THEN "none"
                            ELSE IF got.ok THEN "true" ELSE "false"

\* lines 546-560: after the loop
PlanReturn ==
    /\ pc = "after_loop"
    /\ UNCHANGED <<open_set_, close_set_, open_pq_, final_node_,
                   obstacles_linesegments_vec_, XYbounds_, start_node_, end_node_,
                   dp_map_, nodes, FLAGS_use_s_curve_speed_smooth, args, result_in,
                   explored, dp_builds, earlier, checked_node, valid, trace, input,
                   output>>
    /\ IF final_node_ = nullptr
       THEN /\ ret' = "false"
            /\ pc' = "idle"
            /\ UNCHANGED result
       ELSE \E stray \in StrayDoubles :
              LET got == GetResult(nodes, final_node_, result,
                                   FLAGS_use_s_curve_speed_smooth, stray)
              IN  /\ result' = got.result
                  /\ pc' = IF got.hangs THEN "hung" ELSE "idle"
                  /\ ret' = IF got.hangs THEN "none"
                            ELSE IF got.ok THEN "true" ELSE "false"

Next ==
    \/ \E a \in PlanArgs, fresh \in BOOLEAN : PlanCall(a, fresh)
    \/ SearchStep
    \/ PlanReturn

Spec == Init /\ [][Next]_vars

\* the first Plan call on a planner just constructed
FirstPlanCall ==
    /\ ret = "none"
    /\ \E a \in PlanArgs : PlanCall(a, TRUE)

NextOneCall ==
    \/ FirstPlanCall
    \/ SearchStep
    \/ PlanReturn

\* lines 506-545 seen from the thread of the call: an iteration of the main
\* loop moves the call on, expanding the index on top of the queue or leaving
\* the loop
LoopIteration ==
    /\ pc = "loop"
    /\ pc' \in {"loop", "after_loop", "crashed"}
    /\ explored' \in {explored, Append(explored, open_pq_[PqTop(open_pq_)][1])}

\* lines 546-560 seen from the thread of the call
ReturnStep ==
    /\ pc = "after_loop"
    /\ pc' \in {"idle", "hung"}
    /\ explored' = explored

\* One Plan call runs to completion on its thread: a call inside the main loop
\* goes on with its next iteration, a call after the loop goes on to its
\* return.
FairSpec ==
    /\ Init /\ [][NextOneCall]_vars
    /\ WF_<<pc, explored>>(LoopIteration)
    /\ WF_<<pc, explored>>(ReturnStep)

\* ------------------------------------------------------------ functions alone
\* a planner just constructed, before any call (lines 30-54)
Constructed ==
    /\ open_set_ = <<>>
    /\ close_set_ = <<>>
    /\ open_pq_ = <<>>
    /\ final_node_ = nullptr
    /\ obstacles_linesegments_vec_ = <<>>
    /\ XYbounds_ = <<>>
    /\ start_node_ = nullptr
    /\ end_node_ = nullptr
    /\ dp_map_ = <<>>
    /\ nodes = <<>>
    /\ FLAGS_use_s_curve_speed_smooth = FALSE
    /\ result = EmptyResult
    /\ pc = "idle"
    /\ ret = "none"
    /\ args = NoCall
    /\ result_in = EmptyResult
    /\ explored = <<>>
    /\ dp_builds = 0
    /\ earlier = NoCall
    /\ checked_node = NoNode
    /\ valid = "none"
    /\ trace = <<>>

\* what a function applied on its own leaves alone
PlannerUnchanged ==
    UNCHANGED <<open_set_, close_set_, open_pq_, final_node_,
                obstacles_linesegments_vec_, XYbounds_, start_node_, end_node_,
                dp_map_, nodes, FLAGS_use_s_curve_speed_smooth, result, pc, ret,
                args, result_in, explored, dp_builds, earlier, checked_node, valid,
                trace, input>>

\* the largest step_size and xy_grid_resolution of a configuration, in one unit
MaxStepSize == 8

MaxGridResolution == 8

\* lines 30-54 with a configuration of its own
InitSubsteps ==
    /\ Constructed
    /\ input \in [step_size : 1..MaxStepSize, xy_grid_resolution : 1..MaxGridResolution]
    /\ output = <<>>

\* lines 156-178: one forward primitive with zero steering from the origin
CountSubsteps ==
    /\ output = <<>>
    /\ LET inter == IntegrateArc(0, <<0>>, <<0>>, <<0>>, input.step_size, 0,
                                 input.step_size, input.xy_grid_resolution)
       IN  output' = [poses |-> Len(inter[1]), last_x |-> inter[1][Len(inter[1])]]
    /\ PlannerUnchanged

SpecSubsteps == InitSubsteps /\ [][CountSubsteps]_vars

\* the largest next_node_num and max_steer_angle of a configuration
MaxNextNodeNum == 8

MaxSteerAngle == 5

\* the even values of next_node_num
EvenNodeNums == {n \in 2..MaxNextNodeNum : n % 2 = 0}

\* lines 30-54 with a configuration of its own, and a primitive to generate
InitSteering ==
    /\ Constructed
    /\ \E n \in EvenNodeNums :
         input \in [next_node_num : {n}, max_steer_angle : 1..MaxSteerAngle,
                    next_node_index : 0..(n - 1)]
    /\ output = <<>>

\* lines 137-153
ComputeSteering ==
    /\ output = <<>>
    /\ output' = SteeringOf(input.next_node_num, input.max_steer_angle,
                            input.next_node_index)
    /\ PlannerUnchanged

SpecSteering == InitSteering /\ [][ComputeSteering]_vars

\* the longest reference velocity sequence tried
MaxSamples == 12

\* a reference velocity sequence as lines 346-371 leave it for a path of n
\* poses: zero at both ends, one sample of reverse motion at place p and one
\* of forward motion at place q (0: no such sample)
SampleV(n, p, q) ==
    [i \in 1..n |-> IF i = p THEN -1 ELSE IF i = q THEN 1 ELSE 0]

\* a reference velocity sequence, and what the memory before it holds
InitFirstOrderBounds ==
    /\ Constructed
    /\ \E n \in 2..MaxSamples :
         \E p \in {0} \cup 2..(n - 1), q \in {0} \cup 2..(n - 1) :
            input \in [v : {SampleV(n, p, q)}, stray : StrayDoubles]
    /\ output = <<>>

\* lines 410-412: the arguments of SetFirstOrderBounds and the place of v the
\* lower one is read from
ComputeFirstOrderBounds ==
    /\ output = <<>>
    /\ output' = [lower |-> FirstOrderLowerBound(input.v, input.stray),
                  upper |-> FirstOrderUpperBound(input.v),
                  read |-> FirstOrderLowerRead(input.v)]
    /\ PlannerUnchanged

SpecFirstOrderBounds == InitFirstOrderBounds /\ [][ComputeFirstOrderBounds]_vars

\* ------------------------------------------------------------ ValidityCheck alone
\* the longest node handed to ValidityCheck on its own
MaxLen == 3

\* the poses of those nodes: left of, inside and on the wall of the workspace
CheckPoses == {<<-1, 0, 0>>, <<0, 0, 0>>, <<1, 1, 1>>, <<2, 1, 0>>, <<2, 2, 0>>}

PoseSeqs == UNION {[1..n -> CheckPoses] : n \in 1..MaxLen}

\* a planner that has loaded its obstacles and bounds (lines 461-476)
InitValidity ==
    /\ open_set_ = <<>>
    /\ close_set_ = <<>>
    /\ open_pq_ = <<>>
    /\ final_node_ = nullptr
    /\ \E o \in ObstacleLists :
         /\ \A k \in 1..Len(o) : ~SegmentLoopReadsPastEnd(o[k])
         /\ obstacles_linesegments_vec_ = BuildLinesegmentsVec(o)
    /\ XYbounds_ = Workspace
    /\ start_node_ = nullptr
    /\ end_node_ = nullptr
    /\ dp_map_ = <<>>
    /\ nodes = <<>>
    /\ FLAGS_use_s_curve_speed_smooth = FALSE
    /\ result = EmptyResult
    /\ pc = "idle"
    /\ ret = "none"
    /\ args = NoCall
    /\ result_in = EmptyResult
    /\ explored = <<>>
    /\ dp_builds = 0
    /\ earlier = NoCall
    /\ checked_node = NoNode
    /\ valid = "none"
    /\ trace = <<>>
    /\ input = <<>>
    /\ output = <<>>

\* lines 83-122 applied to one node
CheckValidity ==
    /\ valid = "none"
    /\ \E ps \in PoseSeqs :
         LET node == Node3d([i \in 1..Len(ps) |-> ps[i][1]], [i \in 1..Len(ps) |-> ps[i][2]],
                            [i \in 1..Len(ps) |-> ps[i][3]])
         IN  /\ checked_node' = node
             /\ valid' = IF ValidityCheck(node, obstacles_linesegments_vec_, XYbounds_)
                          THEN "true" ELSE "false"
    /\ UNCHANGED <<open_set_, close_set_, open_pq_, final_node_,
                   obstacles_linesegments_vec_, XYbounds_, start_node_, end_node_,
                   dp_map_, nodes, FLAGS_use_s_curve_speed_smooth, result, pc, ret,
                   args, result_in, explored, dp_builds, earlier, trace, input, output>>

SpecValidity == InitValidity /\ [][CheckValidity]_vars

\* ============================================================ properties
\* the values of a map
Range(m) == {m[k] : k \in DOMAIN m}

\* the segments between consecutive vertices of the obstacles of a Plan call
VertexSegments(obstacles_vertices_vec) ==
    {<<obstacles_vertices_vec[o][i], obstacles_vertices_vec[o][i + 1]>> :
        <<o, i>> \in {oi \in (1..Len(obstacles_vertices_vec)) \X (1..MaxLen + 1) :
                        oi[2] < Len(obstacles_vertices_vec[oi[1]])}}

\* the footprint at a pose overlaps an obstacle of the call
PoseOverlaps(x, y, phi, obstacles_vertices_vec) ==
    \E seg \in VertexSegments(obstacles_vertices_vec) : HasOverlap(x, y, phi, seg)

\* a start or end pose Plan has to reject
InvalidPose(p, a) ==
    \/ OutOfBounds(p[1], p[2], a.XYbounds)
    \/ PoseOverlaps(p[1], p[2], p[3], a.obstacles_vertices_vec)

\* a Plan call has returned
Returned == pc = "idle" /\ ret # "none"

RECURSIVE Ancestors(_, _, _)
\* the nodes met following parent links from n, n first, over at most fuel links
Ancestors(arena, n, fuel) ==
    IF arena[n].pre = nullptr \/ fuel = 0 THEN <<n>>
    ELSE <<n>> \o Ancestors(arena, arena[n].pre, fuel - 1)

\* the parent chain of the final node, start first
FinalChain == Reverse(Ancestors(nodes, final_node_, Len(nodes)))

\* the poses of a node in the order the vehicle traverses them
PosesOf(n) == [i \in 1..Len(n.xs) |-> <<n.xs[i], n.ys[i], n.phis[i]>>]

\* the poses of the result object
ResultPoses == [i \in 1..Len(result.x) |-> <<result.x[i], result.y[i], result.phi[i]>>]

\* ------------------------------------------------------------------ C1
\* C1 (as claimed): a Plan call whose start or end pose is outside XYbounds
\* or overlaps an obstacle segment returns false, leaves the result object as
\* it was, builds no heuristic map and puts nothing into the open set or the
\* priority queue, whatever the obstacle list, the empty one included.
C1_InvalidInputRejected ==
    (/\ args # NoCall
     /\ pc # "crashed"
     /\ InvalidPose(args.start, args) \/ InvalidPose(args.end, args))
    => /\ pc = "idle"
       /\ ret = "false"
       /\ result = result_in
       /\ dp_builds = 0
       /\ open_set_ = <<>>
       /\ open_pq_ = <<>>
       /\ explored = <<>>

\* ------------------------------------------------------------------ C2
\* the nodes of the final chain that motion primitives produced
PrimitiveNodes == {FinalChain[i] : i \in 2..(Len(FinalChain) - 1)}

\* C2 (as claimed): when Plan returns true every pose of every primitive node
\* on the parent chain of the final node is within XYbounds and no pose of the
\* returned path overlaps an obstacle segment, whatever the obstacle list, the
\* empty one included.
C2_PathInsideAndFree ==
    (Returned /\ ret = "true")
    => /\ \A n \in PrimitiveNodes : \A i \in 1..Len(nodes[n].xs) :
            ~OutOfBounds(nodes[n].xs[i], nodes[n].ys[i], args.XYbounds)
       /\ \A i \in 1..Len(result.x) :
            ~PoseOverlaps(result.x[i], result.y[i], result.phi[i],
                          args.obstacles_vertices_vec)

\* ------------------------------------------------------------------ C3
\* the size rule of a result
SizeRule(r) ==
    /\ Len(r.x) = Len(r.y) /\ Len(r.y) = Len(r.phi) /\ Len(r.phi) = Len(r.v)
    /\ Len(r.a) = Len(r.x) - 1 /\ Len(r.steer) = Len(r.x) - 1

\* C3: when Plan returns true the result satisfies |x| = |y| = |phi| = |v| and
\* |a| = |steer| = |x| - 1, and in finite-difference mode its last velocity is
\* 0; a result that breaks the size rule after reconstruction and speed
\* profiling makes Plan return false.
C3_SizeRule ==
    /\ (Returned /\ ret = "true")
       => /\ SizeRule(result)
          /\ ~FLAGS_use_s_curve_speed_smooth => result.v[Len(result.x)] = 0
    /\ (Returned /\ final_node_ # nullptr /\ ~SizeRule(result)) => ret = "false"

\* Plan has returned true in finite-difference mode with a path through a
\* primitive
C3_Witness ==
    /\ Returned /\ ret = "true" /\ ~FLAGS_use_s_curve_speed_smooth
    /\ Len(FinalChain) >= 3 /\ Len(result.x) >= 3

\* ------------------------------------------------------------------ C4
\* the nodes the planner holds
HeldNodes == (Range(open_set_) \cup Range(close_set_) \cup {final_node_}) \ {nullptr}

\* following parent links from n meets no node twice and ends at the start node
ChainEndsAtStart(n) ==
    LET c == Ancestors(nodes, n, Len(nodes))
    IN  /\ \A i, j \in 1..Len(c) : i # j => c[i] # c[j]
        /\ c[Len(c)] = start_node_
        /\ nodes[c[Len(c)]].pre = nullptr

RECURSIVE JoinedPoses(_, _)
\* the poses along the first k nodes of the final chain, a pose two
\* consecutive nodes share taken once
JoinedPoses(chain, k) ==
    IF k = 1 THEN PosesOf(nodes[chain[1]])
    ELSE JoinedPoses(chain, k - 1) \o Tail(PosesOf(nodes[chain[k]]))

RECURSIVE StepsAlong(_, _)
\* the sum of step_size - 1 over the nodes 2..k of the chain
StepsAlong(chain, k) ==
    IF k = 1 THEN 0 ELSE StepsAlong(chain, k - 1) + (GetStepSize(nodes[chain[k]]) - 1)

\* C4: following parent links from any node of the open set, the closed set or
\* from the final node meets no node twice and ends at the start node; the
\* sequence GetResult reconstructs runs from the start pose to the last pose
\* of the analytic curve, holds every shared pose once and has
\* 1 + sum(step_size - 1) poses.
C4_ChainAndReconstruction ==
    /\ \A n \in HeldNodes : ChainEndsAtStart(n)
    /\ (Returned /\ final_node_ # nullptr)
       => /\ ResultPoses = JoinedPoses(FinalChain, Len(FinalChain))
          /\ ResultPoses[1] = args.start
          /\ ResultPoses[Len(ResultPoses)] =
               <<GetX(nodes[final_node_]), GetY(nodes[final_node_]),
                 GetPhi(nodes[final_node_])>>
          /\ Len(ResultPoses) = 1 + StepsAlong(FinalChain, Len(FinalChain))

\* Plan has returned a path through two primitives and an analytic curve
C4_Witness ==
    /\ Returned /\ ret = "true"
    /\ Len(FinalChain) >= 4
    /\ GetStepSize(nodes[final_node_]) >= 2

\* ------------------------------------------------------------------ C5
\* C5 (as claimed): a Plan call returns the same value and leaves the same
\* result sequences as the call before it when that call had the same
\* arguments and the same result object.
C5_SameInputSameOutcome ==
    (Returned /\ earlier # NoCall)
    => /\ ret = earlier.ret
       /\ result = earlier.result

\* ------------------------------------------------------------------ C6
\* C6: when the priority queue runs empty with no final node set Plan returns
\* false and leaves the result object as the caller passed it; Plan returns
\* true only with a final node that an analytic expansion set: a node of the
\* closed set whose parent was popped and whose curve ends at the end pose.
C6_ExhaustionReturnsFalse ==
    /\ (Returned /\ dp_builds = 1 /\ final_node_ = nullptr)
       => /\ open_pq_ = <<>>
          /\ ret = "false"
          /\ result = result_in
    /\ (Returned /\ ret = "true")
       => /\ final_node_ # nullptr
          /\ final_node_ \in Range(close_set_)
          /\ nodes[final_node_].pre \in Range(open_set_)
          /\ <<GetX(nodes[final_node_]), GetY(nodes[final_node_]),
               GetPhi(nodes[final_node_])>> = args.end

\* the search ran out after several expansions and Plan returned false
C6_Witness ==
    /\ Returned /\ ret = "false"
    /\ final_node_ = nullptr /\ open_pq_ = <<>>
    /\ Len(explored) >= 2

\* ------------------------------------------------------------------ C7
\* no index occurs twice among the indices the main loop expanded
NoIndexExpandedTwice ==
    \A i, j \in 1..Len(explored) : i # j => explored[i] # explored[j]

\* every expanded index other than that of the start is an index of the grid
\* over XYbounds with one of the four headings
ExpandedInsideGrid ==
    \A i \in 2..Len(explored) :
        /\ <<explored[i][1], explored[i][2]>> \in GridCells(XYbounds_)
        /\ explored[i][3] \in -2..1

\* the segment loop of lines 464-470 runs past the vertex list of an obstacle
SegmentLoopOverrun ==
    \E o \in 1..Len(args.obstacles_vertices_vec) :
        SegmentLoopReadsPastEnd(args.obstacles_vertices_vec[o])

C8_OpenPolyline ==
    (args # NoCall /\ pc # "crashed")
    => LET given == args.obstacles_vertices_vec
           built == obstacles_linesegments_vec_
       IN  /\ Len(built) = Len(given)
           /\ \A o \in 1..Len(given) :
                /\ Len(built[o]) = Len(given[o]) - 1
                /\ \A i \in 1..(Len(given[o]) - 1) :
                     built[o][i] = <<given[o][i], given[o][i + 1]>>
                /\ \A i \in 1..Len(built[o]) :
                     built[o][i] # <<given[o][Len(given[o])], given[o][1]>>
           /\ (/\ ~InvalidPose(args.start, args) /\ ~InvalidPose(args.end, args)
               /\ given # <<>>)
              => (pc # "idle" \/ dp_builds = 1)

\* a call with a three-vertex obstacle whose start pose lies on the closing
\* edge has entered the main loop
C8_Witness ==
    /\ args # NoCall /\ pc = "loop"
    /\ \E o \in 1..Len(args.obstacles_vertices_vec) :
         LET vs == args.obstacles_vertices_vec[o]
         IN  /\ Len(vs) = 3
             /\ HasOverlap(args.start[1], args.start[2], args.start[3], <<vs[3], vs[1]>>)

\* ------------------------------------------------------------------ C9, C10
\* the stored pose i of the node handed to ValidityCheck lies within XYbounds
PoseInBounds(i) ==
    ~OutOfBounds(checked_node.xs[i], checked_node.ys[i], XYbounds_)

\* the footprint at the stored pose i overlaps no obstacle segment the planner holds
PoseFree(i) ==
    \A o \in 1..Len(obstacles_linesegments_vec_) :
      \A k \in 1..Len(obstacles_linesegments_vec_[o]) :
        ~HasOverlap(checked_node.xs[i], checked_node.ys[i], checked_node.phis[i],
                    obstacles_linesegments_vec_[o][k])

\* stored poses in traversal order: all of a single-pose node, else all but the first
AllButFirst ==
    IF Len(checked_node.xs) = 1 THEN {1} ELSE 2..Len(checked_node.xs)

\* stored poses in traversal order: all of a single-pose node, else all but the last
AllButFinal ==
    IF Len(checked_node.xs) = 1 THEN {1} ELSE 1..(Len(checked_node.xs) - 1)

\* C9 (as claimed): with an empty obstacle set ValidityCheck returns true if
\* and only if every pose it has to check lies within XYbounds; a node with a
\* checked pose outside XYbounds gets false.
C9_EmptySetStillChecksBounds ==
    (valid # "none" /\ obstacles_linesegments_vec_ = <<>>)
    => (valid = "true" <=> \A i \in AllButFirst : PoseInBounds(i))

\* C10 (as the code has it): with a non-empty obstacle set ValidityCheck
\* returns true if and only if every pose of its checked set is within
\* XYbounds and overlaps no obstacle segment, the checked set being the single
\* pose of a one-pose node and otherwise every pose except the first in
\* traversal order, the pose the node shares with its parent.
C10_ChecksAllButFirst ==
    (valid # "none" /\ obstacles_linesegments_vec_ # <<>>)
    => (valid = "true" <=> \A i \in AllButFirst : PoseInBounds(i) /\ PoseFree(i))

\* C10 (as claimed): the same with the checked set of a longer node being
\* every pose except the final one in traversal order.
C10_ChecksAllButFinal ==
    (valid # "none" /\ obstacles_linesegments_vec_ # <<>>)
    => (valid = "true" <=> \A i \in AllButFinal : PoseInBounds(i) /\ PoseFree(i))

\* a node of several poses is found valid against obstacles although its first
\* pose is outside XYbounds or in collision
C10_Witness ==
    /\ valid = "true"
    /\ obstacles_linesegments_vec_ # <<>>
    /\ Len(checked_node.xs) > 1
    /\ ~(PoseInBounds(1) /\ PoseFree(1))

\* ------------------------------------------------------------------ C11
\* the index on top of the priority queue
TopId == open_pq_[PqTop(open_pq_)][1]

\* the node the main loop takes from the queue next
TopNode == open_set_[TopId]

\* the Reeds-Shepp curve from node n to the end node
CurveFrom(n) == ShortestRSP(nodes[n], nodes[end_node_])

\* ShortestRSP succeeds from node n and the curve passes ValidityCheck
CurveAccepted(n) ==
    /\ CurveFrom(n).ok
    /\ RSPCheck(CurveFrom(n), obstacles_linesegments_vec_, XYbounds_)

\* C11: every iteration tries the analytic expansion on the popped node before
\* it inserts that node into the closed set and before it generates a
\* successor; when the curve is found and passes ValidityCheck the iteration
\* creates one terminal node that holds the curve with the popped node as
\* parent, inserts it into the closed set, makes it the final node and leaves
\* the loop, and nothing is popped or expanded after that.
C11_AnalyticExpansionFirst ==
    /\ [][pc = "loop" =>
            /\ Len(trace') >= 4
            /\ trace'[4] = "AnalyticExpansion"
            /\ \A k \in 1..3 : trace'[k] \notin {"close_set_.insert", "Next_node_generator"}
            /\ IF CurveAccepted(TopNode)
               THEN /\ nodes' = Append(nodes,
                                   [Node3d(CurveFrom(TopNode).x, CurveFrom(TopNode).y,
                                           CurveFrom(TopNode).phi)
                                      EXCEPT !.pre = TopNode])
                    /\ final_node_' = Len(nodes')
                    /\ GetIndex(nodes'[final_node_'], XYbounds_) \in DOMAIN close_set_'
                    /\ \A k \in DOMAIN close_set_' :
                         IF k \in DOMAIN close_set_
                         THEN close_set_'[k] = close_set_[k]
                         ELSE close_set_'[k] = final_node_'
                    /\ trace' = Append(PopAndLookUp, "AnalyticExpansion")
                    /\ pc' = "after_loop"
                    /\ explored' = explored
                    /\ open_set_' = open_set_
                    /\ Len(open_pq_') = Len(open_pq_) - 1
               ELSE final_node_' = nullptr
       ]_vars
    /\ [](final_node_ # nullptr => pc # "loop")

\* the search has ended on a curve of several poses found after two
\* iterations without one
C11_Witness ==
    /\ pc = "after_loop"
    /\ final_node_ # nullptr
    /\ Len(explored) >= 2
    /\ GetStepSize(nodes[final_node_]) >= 2

\* ------------------------------------------------------------------ C12
\* primitive i from the node on top of the queue
TopSuccessor(i) == Next_node_generator(nodes, TopNode, i, XYbounds_)

\* the indices the primitives from the node on top of the queue have to add to
\* the open set: inside XYbounds, not closed once that node is, valid
DueIndices ==
    {GetIndex(TopSuccessor(i), XYbounds_) :
        i \in {j \in 0..(next_node_num_ - 1) :
                 /\ TopSuccessor(j) # NoNode
                 /\ GetIndex(TopSuccessor(j), XYbounds_)
                      \notin DOMAIN close_set_ \cup {GetIndex(nodes[TopNode], XYbounds_)}
                 /\ ValidityCheck(TopSuccessor(j), obstacles_linesegments_vec_,
                                  XYbounds_)}}

\* the keys of a priority queue
PqKeys(pq) == {pq[k][1] : k \in 1..Len(pq)}

\* C12: an iteration whose analytic expansion fails (no curve, or a curve
\* that fails ValidityCheck) goes on: the final node stays unset, the closed
\* set gains the popped node and nothing else, and all next_node_num_
\* primitives are generated, so that the open set and the queue gain exactly
\* the successor indices that are due and not yet in the open set.
C12_FailedExpansionGoesOn ==
    [][(pc = "loop" /\ ~CurveAccepted(TopNode)) =>
         /\ pc' \in {"loop", "after_loop"}
         /\ ret' = ret
         /\ final_node_' = nullptr
         /\ explored' = Append(explored, TopId)
         /\ close_set_' = MapInsert(close_set_, GetIndex(nodes[TopNode], XYbounds_), TopNode)
         /\ DOMAIN open_set_' = DOMAIN open_set_ \cup DueIndices
         /\ \A k \in DOMAIN open_set_ : open_set_'[k] = open_set_[k]
         /\ PqKeys(open_pq_') = (PqKeys(open_pq_) \ {TopId}) \cup (DueIndices \ DOMAIN open_set_)
         /\ trace' = PopAndLookUp \o <<"AnalyticExpansion", "close_set_.insert",
                                       "Next_node_generator">>
      ]_vars

\* the first iteration found a curve that failed ValidityCheck, closed the
\* start node and stored a successor of it for the iterations to come
C12_Witness ==
    /\ pc = "loop"
    /\ final_node_ = nullptr
    /\ explored = <<GetIndex(nodes[start_node_], XYbounds_)>>
    /\ CurveFrom(start_node_).ok
    /\ ~CurveAccepted(start_node_)
    /\ \E n \in DOMAIN nodes : nodes[n].pre = start_node_

\* ------------------------------------------------------------------ C13
\* the poses of primitive i from node n: <<xs, ys, phis>>
PrimitivePoses(n, i) ==
    Integrate(0, <<GetX(nodes[n])>>, <<GetY(nodes[n])>>, <<GetPhi(nodes[n])>>,
              TraveledDistance(i), Steering(i))

\* the last pose of primitive i from node n is outside XYbounds
PrimitiveLeaves(n, i) ==
    LET p == PrimitivePoses(n, i)
    IN  OutOfBounds(p[1][Len(p[1])], p[2][Len(p[2])], XYbounds_)

\* how far the second pose of node m lies ahead of its first, along the
\* heading of the first
FirstAdvance(m) ==
    (m.xs[2] - m.xs[1]) * Cos(m.phis[1]) + (m.ys[2] - m.ys[1]) * Sin(m.phis[1])

\* C13: for every node n of the open set and every i in [0, next_node_num_),
\* Next_node_generator(n, i) returns no node exactly when the last pose of
\* the primitive is outside XYbounds, and otherwise a node that holds the
\* poses of the primitive starting with the pose of n, has n as parent, is
\* forward (moves ahead) if i < next_node_num_ / 2 and reverse (moves back)
\* otherwise, and carries the steering of the primitive; half of the indices
\* are forward and half reverse.
C13_SuccessorShape ==
    /\ \A n \in Range(open_set_) : \A i \in 0..(next_node_num_ - 1) :
         LET m == Next_node_generator(nodes, n, i, XYbounds_)
         IN  IF PrimitiveLeaves(n, i) THEN m = NoNode
             ELSE /\ m # NoNode
                  /\ <<m.xs, m.ys, m.phis>> = PrimitivePoses(n, i)
                  /\ <<m.xs[1], m.ys[1], m.phis[1]>>
                       = <<GetX(nodes[n]), GetY(nodes[n]), GetPhi(nodes[n])>>
                  /\ m.pre = n
                  /\ m.direc = (2 * i < next_node_num_)
                  /\ FirstAdvance(m) = IF 2 * i < next_node_num_ THEN step_size_
                                       ELSE -step_size_
                  /\ m.steer = Steering(i)
    /\ 2 * Cardinality({i \in 0..(next_node_num_ - 1) : TraveledDistance(i) > 0})
         = next_node_num_
    /\ 2 * Cardinality({i \in 0..(next_node_num_ - 1) : TraveledDistance(i) < 0})
         = next_node_num_

\* a node of the open set, itself reached by a primitive, from which one
\* primitive leaves XYbounds and another gives a reverse node
C13_Witness ==
    \E n \in Range(open_set_) :
        /\ nodes[n].pre # nullptr
        /\ \E i \in 0..(next_node_num_ - 1) : PrimitiveLeaves(n, i)
        /\ \E i \in 0..(next_node_num_ - 1) :
             /\ ~PrimitiveLeaves(n, i)
             /\ ~Next_node_generator(nodes, n, i, XYbounds_).direc

\* ------------------------------------------------------------------ C14
\* the substeps of the primitive integrated on its own
SubstepsTaken == output.poses - 1

\* C14 (as the code has it): a primitive takes the least number n of
\* substeps with n * step_size >= arc, arc = sqrt(2) * xy_grid_resolution,
\* that is ceil(arc / step_size), so that it travels the arc or more, and
\* the node holds n + 1 poses.
C14_CeilSubsteps ==
    output # <<>> =>
        /\ SubstepsTaken * input.step_size * 1000
             >= Sqrt2Milli * input.xy_grid_resolution
        /\ (SubstepsTaken - 1) * input.step_size * 1000
             < Sqrt2Milli * input.xy_grid_resolution
        /\ output.last_x = SubstepsTaken * input.step_size

\* C14 (as claimed): a primitive takes floor(arc / step_size) substeps, the
\* largest n with n * step_size <= arc, and the node holds n + 1 poses.
C14_FloorSubsteps ==
    output # <<>> =>
        /\ SubstepsTaken * input.step_size * 1000
             <= Sqrt2Milli * input.xy_grid_resolution
        /\ (SubstepsTaken + 1) * input.step_size * 1000
             > Sqrt2Milli * input.xy_grid_resolution

\* a primitive of several substeps whose step_size does not divide the arc
C14_Witness ==
    /\ output # <<>>
    /\ input.step_size > 1
    /\ SubstepsTaken >= 3
    /\ SubstepsTaken * input.step_size * 1000 > Sqrt2Milli * input.xy_grid_resolution

\* ------------------------------------------------------------------ C15
\* half of next_node_num and the local index of the primitive computed
Half == input.next_node_num \div 2

LocalIndex ==
    IF input.next_node_index < Half THEN input.next_node_index
    ELSE input.next_node_index - Half

\* C15 (as claimed): for every even next_node_num and every i the steering of
\* primitive i is a number, equal to
\* -max_steer + (2 * max_steer / (half - 1)) * local_index, of magnitude at
\* most max_steer, -max_steer at local index 0 and +max_steer at local index
\* half - 1, the same for the forward primitive i and the reverse primitive
\* i + half.
C15_SteeringSweep ==
    output # <<>> =>
        /\ output.kind = "finite"
        /\ output.num * (Half - 1)
             = output.den * (-input.max_steer_angle * (Half - 1)
                             + 2 * input.max_steer_angle * LocalIndex)
        /\ Abs(output.num) <= input.max_steer_angle * Abs(output.den)
        /\ LocalIndex = 0 => output.num = -input.max_steer_angle * output.den
        /\ LocalIndex = Half - 1 => output.num = input.max_steer_angle * output.den
        /\ output = SteeringOf(input.next_node_num, input.max_steer_angle, LocalIndex)

\* ------------------------------------------------------------------ C16
\* the successors stored in the open set whose parent is the start node
SuccessorsOfStart ==
    {open_set_[k] : k \in {j \in DOMAIN open_set_ :
        /\ open_set_[j] # nullptr
        /\ nodes[open_set_[j]].pre # nullptr
        /\ nodes[open_set_[j]].pre = start_node_}}

\* the part of the edge cost of node n that lines 216-218 added: what is left
\* of traj_cost once the parent's cost and the terms of lines 209-215 and
\* 219-221 are taken off
GearSwitchTerm(n) ==
    LET next_node == nodes[n]
        current_node == nodes[next_node.pre]
    IN  next_node.traj_cost - current_node.traj_cost
        - (GetStepSize(next_node) - 1) * step_size_
            * (IF next_node.direc THEN traj_forward_penalty_ ELSE traj_back_penalty_)
        - traj_steer_penalty_ * Abs(next_node.steer)
        - traj_steer_change_penalty_ * Abs(next_node.steer - current_node.steer)

\* C16 (as claimed): the edge cost of a successor of the start node holds no
\* gear-switch penalty, be the successor a forward or a reverse primitive.
C16_NoGearSwitchFromStart ==
    \A n \in SuccessorsOfStart : GearSwitchTerm(n) = 0

\* ------------------------------------------------------------------ C17
\* how many entries of a priority queue carry index k
PqCount(pq, k) == Cardinality({j \in 1..Len(pq) : pq[j][1] = k})

\* the primitives from the node on top of the queue that lines 523-534 let
\* through and that lead to index k
PrimitivesTo(k) ==
    {i \in 0..(next_node_num_ - 1) :
        /\ TopSuccessor(i) # NoNode
        /\ GetIndex(TopSuccessor(i), XYbounds_) = k
        /\ k \notin DOMAIN close_set_ \cup {GetIndex(nodes[TopNode], XYbounds_)}
        /\ ValidityCheck(TopSuccessor(i), obstacles_linesegments_vec_, XYbounds_)}

\* the first of them, with its cost
FirstDiscovered(k) ==
    LET i == CHOOSE j \in PrimitivesTo(k) : \A l \in PrimitivesTo(k) : j <= l
    IN  CalculateNodeCost(nodes[TopNode], TopSuccessor(i), dp_map_, XYbounds_)

\* C17: an iteration of the main loop leaves every node it found stored as it
\* is (parent, costs, direction, steer), leaves every entry of the open set
\* as it is and adds no queue entry for an index of the open set; an index in
\* the closed set, or reached by successors that fail ValidityCheck only,
\* enters neither the open set nor the queue; an index new to the open set
\* is stored once and queued once, with the first successor that reached it.
C17_FirstDiscoveredStays ==
    [][pc = "loop" =>
         /\ \A n \in 1..Len(nodes) : nodes'[n] = nodes[n]
         /\ \A k \in DOMAIN open_set_ :
              /\ k \in DOMAIN open_set_'
              /\ open_set_'[k] = open_set_[k]
              /\ PqCount(open_pq_', k)
                   = PqCount(open_pq_, k) - (IF k = TopId THEN 1 ELSE 0)
         /\ \A k \in DOMAIN close_set_' \ DOMAIN open_set_ :
              k \notin DOMAIN open_set_' /\ PqCount(open_pq_', k) = 0
         /\ \A i \in 0..(next_node_num_ - 1) :
              LET m == TopSuccessor(i)
                  k == GetIndex(m, XYbounds_)
              IN  (/\ m # NoNode
                   /\ k \notin DOMAIN open_set_
                   /\ PrimitivesTo(k) = {})
                  => k \notin DOMAIN open_set_' /\ PqCount(open_pq_', k) = 0
         /\ \A k \in DOMAIN open_set_' \ DOMAIN open_set_ :
              /\ PrimitivesTo(k) # {}
              /\ open_set_'[k] > Len(nodes)
              /\ nodes'[open_set_'[k]] = FirstDiscovered(k)
              /\ PqCount(open_pq_', k) = 1
      ]_vars

\* the node expanded last had a valid successor of lower traj_cost than the
\* node, found from another parent, that the open set holds under the index
\* of that successor
C17_Witness ==
    /\ pc = "loop"
    /\ explored # <<>>
    /\ LET n == close_set_[explored[Len(explored)]]
       IN  \E i \in 0..(next_node_num_ - 1) :
             LET m == Next_node_generator(nodes, n, i, XYbounds_)
                 k == GetIndex(m, XYbounds_)
             IN  /\ m # NoNode
                 /\ ValidityCheck(m, obstacles_linesegments_vec_, XYbounds_)
                 /\ k \in DOMAIN open_set_
                 /\ k \notin DOMAIN close_set_
                 /\ nodes[open_set_[k]].pre # n
                 /\ CalculateNodeCost(nodes[n], m, dp_map_, XYbounds_).traj_cost
                      < nodes[open_set_[k]].traj_cost

\* ------------------------------------------------------------------ C18
\* the positions of the latest iteration at which the popped index was looked
\* up in the closed set before the analytic expansion
ClosedSetTestsAfterPop(t) ==
    {k \in 1..Len(t) :
        /\ t[k] = "close_set_.find"
        /\ \E p \in 1..(k - 1) : t[p] = "open_pq_.pop"
        /\ \A a \in 1..k : t[a] # "AnalyticExpansion"}

\* C18 (as the code has it): an iteration hands the popped entry to the
\* analytic expansion right after the lookup in the open set, without any
\* test against the closed set; the entry on top of the queue is never in
\* the closed set and was never expanded before, and no index is expanded
\* more than once during a Plan call.
C18_PoppedEntryNeverClosed ==
    /\ [][pc = "loop" =>
            /\ ClosedSetTestsAfterPop(trace') = {}
            /\ SubSeq(trace', 1, 4) = Append(PopAndLookUp, "AnalyticExpansion")
            /\ TopId \notin DOMAIN close_set_
            /\ \A i \in 1..Len(explored) : explored[i] # TopId
            /\ PqCount(open_pq_, TopId) = 1
       ]_vars
    /\ [](\A i \in 1..Len(explored) : \A j \in (i + 1)..Len(explored) :
            explored[i] # explored[j])

\* C18 (as claimed): every iteration looks the popped index up in the closed
\* set after the pop and before the analytic expansion, and no index is
\* expanded more than once during a Plan call.
C18_ClosedSetConsultedAfterPop ==
    /\ [][pc = "loop" => ClosedSetTestsAfterPop(trace') # {}]_vars
    /\ [](\A i \in 1..Len(explored) : \A j \in 1..(i - 1) :
            explored[i] # explored[j])

\* three entries have been popped and expanded, the closed set holds them and
\* the queue holds entries still
C18_Witness ==
    /\ pc = "loop"
    /\ Len(explored) >= 3
    /\ \A i \in 1..Len(explored) : explored[i] \in DOMAIN close_set_
    /\ Len(open_pq_) >= 2
    /\ ClosedSetTestsAfterPop(trace) = {}
    /\ Len(trace) = 6

\* ------------------------------------------------------------------ C19
\* C19 (as claimed): the first-order bounds handed to the QP are
\* min(v) - 10 and max(v) + 10, and computing them reads places of v only,
\* wherever the least element of v lies.
C19_FirstOrderBounds ==
    output # <<>> =>
        /\ output.lower = MinElement(input.v) - BoundMargin
        /\ output.upper = MaxElement(input.v) + BoundMargin
        /\ output.read \in 1..Len(input.v)

\* ------------------------------------------------------------------ C20
\* the index of the terminal node of the analytic expansion, if there is one
TerminalKeys ==
    IF final_node_ = nullptr THEN {}
    ELSE {GetIndex(nodes[final_node_], XYbounds_)}

\* the entries an iteration pushed: those of the queue after it that the
\* queue did not hold once the top was popped
PushedKeys ==
    {k \in PqKeys(open_pq_') : PqCount(open_pq_', k) > PqCount(PqPop(open_pq_), k)}

\* C20: at every point of a Plan call every queued index is a key of the open
\* set, no index is queued twice or queued after it was expanded, every key
\* of the closed set but that of the terminal node is a key of the open set,
\* no queued index but that of the terminal node is closed, and the open set
\* holds no null node; an iteration pushes only indices that were never
\* pushed before, and its lookup of the popped index finds a node and adds
\* no entry to the open set.
C20_LoopInvariant ==
    /\ [](/\ PqKeys(open_pq_) \subseteq DOMAIN open_set_
          /\ \A k \in PqKeys(open_pq_) : PqCount(open_pq_, k) = 1
          /\ \A i \in 1..Len(explored) : explored[i] \notin PqKeys(open_pq_)
          /\ (DOMAIN close_set_ \ TerminalKeys) \subseteq DOMAIN open_set_
          /\ PqKeys(open_pq_) \cap (DOMAIN close_set_ \ TerminalKeys) = {}
          /\ \A k \in DOMAIN open_set_ :
               open_set_[k] # nullptr /\ open_set_[k] \in 1..Len(nodes)
          /\ pc = "loop" => open_pq_ # <<>> /\ PqKeys(open_pq_) \cap DOMAIN close_set_ = {})
    /\ [][pc = "loop" =>
            /\ TopId \in DOMAIN open_set_
            /\ MapInsert(open_set_, TopId, nullptr) = open_set_
            /\ TopId \notin DOMAIN open_set_' \ DOMAIN open_set_
            /\ pc' # "crashed"
            /\ PushedKeys \cap DOMAIN open_set_ = {}
            /\ \A k \in PushedKeys : PqCount(open_pq_', k) = 1
       ]_vars

\* the loop is under way with four indices queued and two closed, which
\* together are the keys of the open set
C20_Witness ==
    /\ pc = "loop"
    /\ Len(open_pq_) >= 4
    /\ Cardinality(DOMAIN close_set_) >= 2
    /\ DOMAIN open_set_ = PqKeys(open_pq_) \cup DOMAIN close_set_

\* ------------------------------------------------------------------ C21
\* what the call that has returned gives when it is handed an empty result
\* object: the search of lines 456-545 reads no field of the result object,
\* so it ends with the same nodes and the same final node, and lines 546-559
\* run on them
OutcomesOnEmptyResult ==
    IF final_node_ = nullptr
    THEN {[ret |-> "false", result |-> EmptyResult]}
    ELSE {LET got == GetResult(nodes, final_node_, EmptyResult,
                               FLAGS_use_s_curve_speed_smooth, stray)
          IN  [ret |-> IF got.ok THEN "true" ELSE "false", result |-> got.result] :
            stray \in StrayDoubles}

\* C21 (as claimed): a Plan call handed a result object that an earlier
\* successful call filled returns what the same call returns when handed an
\* empty result object, and when that is true it leaves the same x, y, phi,
\* v, a, steer and accumulated_s.
C21_ResultOnEntryIrrelevant ==
    (Returned /\ result_in # EmptyResult)
    => \E o \in OutcomesOnEmptyResult :
          /\ ret = o.ret
          /\ ret = "true" => result = o.result

\* ------------------------------------------------------------------ C22
\* the vertex lists of the latest Plan call
VertexLists ==
    {args.obstacles_vertices_vec[o] : o \in 1..Len(args.obstacles_vertices_vec)}

\* C22 (as claimed): for every obstacle of a Plan call, its list of n
\* vertices makes the loop of line 466 run at most max(n - 1, 0) times, every
\* iteration i reads vertices i and i + 1 with i + 1 < n, lists of 0 and of
\* 1 vertices included, and the call gets past the loop.
C22_SegmentLoopBounded ==
    args # NoCall =>
        /\ \A vertices \in VertexLists :
             /\ SegmentLoopBound(vertices) <= Max2(Len(vertices) - 1, 0)
             /\ \A i \in 0..Len(vertices) :
                  i < SegmentLoopBound(vertices) => i + 1 < Len(vertices)
        /\ pc # "crashed"

====
